---- MODULE Spec2Model ----
(***************************************************************************)
(* modweaver: the manifest of installed mods (config.py), the version      *)
(* resolution of a mod (mod.py), the provider operations add, find_upgrade *)
(* and upgrade (provider.py) and the commands that run them (main.py).     *)
(*                                                                         *)
(* One command runs at a time: it loads the manifest from .mods.toml,      *)
(* runs its coroutines on one asyncio event loop and saves the manifest.   *)
(* Every "await" of a coroutine is a suspension point: the code between    *)
(* two awaits of a coroutine is one atomic action of the model.            *)
(***************************************************************************)
EXTENDS Integers, Sequences, FiniteSets, TLC

VARIABLES
    published,    \* registry: number of versions of each mod published so far
    disk,         \* the mods directory: file name -> what the file holds
    saved,        \* .mods.toml: mod id -> record of the "mods" list
    mods,         \* Config.mods of the running command
    cmd,          \* the running command, [kind |-> "idle"] between commands
    tasks,        \* the coroutines of the running command
    ncmds,        \* number of commands started
    loaded_pinned,\* ids whose record said pinned = true when cmd loaded
    last,         \* history: the add command that ran last, where one is kept
    rv_versions,  \* resolver: DetailedMod.versions under examination
    rv_config,    \* resolver: the target platform under examination
    rv_result,    \* resolver: matching_versions of the two, or NotComputed
    manifest,     \* .mods.toml: whether it exists, and its version and loader
    outcome,      \* init: how the last init command ended, and its arguments
    fh,           \* file_hash: the bytes of the file it is given (file),
                  \* where the coroutine is (pc), its local variable data,
                  \* the arguments of its call of murmur2, if made (call),
                  \* and what it returned, if it has (result)
    toggled       \* disable, enable: the last call and the one before it

vars == <<published, disk, saved, mods, cmd, tasks, ncmds,
          loaded_pinned, last, rv_versions, rv_config, rv_result,
          manifest, outcome, fh, toggled>>

progvars == <<published, disk, saved, mods, cmd, tasks, ncmds,
              loaded_pinned, last>>

rvvars == <<rv_versions, rv_config, rv_result>>

initvars == <<manifest, outcome>>

hashvars == <<fh>>

togglevars == <<toggled>>

-----------------------------------------------------------------------------
(* Bounds *)

\* longest batch of mod ids given to one command
MaxBatch == 2

\* number of commands run one after the other
MaxCmds == 2

\* longest version list given to the resolver
MaxLen == 3

\* longest file given to file_hash, in bytes
MaxBytes == 5

-----------------------------------------------------------------------------
(* Sequences *)

Range(s) == {s[i] : i \in 1..Len(s)}

SeqsUpTo(S, n) == UNION {[1..k -> S] : k \in 0..n}

Injective(s) == \A i, j \in 1..Len(s) : s[i] = s[j] => i = j

-----------------------------------------------------------------------------
(* mod.py: ModVersion, DetailedMod *)

\* the target platform of the manifest: Config.version, Config.loader
Platform == [version |-> "1.20.1", loader |-> "fabric"]

ModVersion(id, modid, filename, date, loaders, game_versions) ==
    [id |-> id, modid |-> modid, version |-> id, filename |-> filename,
     url |-> id, date |-> date, loaders |-> loaders,
     game_versions |-> game_versions]

\* a matches that forgets the loader
matches_game_version_only(version, config) ==
    config.version \in version.game_versions

\* ModVersion.matches
matches(version, config) ==
    config.version \in version.game_versions /\ config.loader \in version.loaders

\* an insertion that puts a version before those of its date
InsertByDate_before_equal(sorted, v) ==
    LET before == {i \in 1..Len(sorted) : sorted[i].date > v.date}
        k == Cardinality(before)
    IN  SubSeq(sorted, 1, k) \o <<v>> \o SubSeq(sorted, k + 1, Len(sorted))

\* list.insert keeping date descending; equal dates keep arrival order
InsertByDate(sorted, v) ==
    LET before == {i \in 1..Len(sorted) : sorted[i].date >= v.date}
        k == Cardinality(before)
    IN  SubSeq(sorted, 1, k) \o <<v>> \o SubSeq(sorted, k + 1, Len(sorted))

RECURSIVE SortDesc(_, _)
SortDesc(done, rest) ==
    IF rest = <<>> THEN done
    ELSE SortDesc(InsertByDate(done, Head(rest)), Tail(rest))

RECURSIVE Reversed(_)
Reversed(s) == IF s = <<>> THEN <<>> ELSE Reversed(Tail(s)) \o <<Head(s)>>

\* a sorted_versions that forgets reverse=True: oldest first
sorted_versions_oldest_first(versions) == Reversed(SortDesc(<<>>, versions))

\* DetailedMod.sorted_versions: sorted(key=date, reverse=True), a stable sort
sorted_versions(versions) == SortDesc(<<>>, versions)

RECURSIVE Matching(_, _)
\* [version for version in s if version.matches(config)]
Matching(s, config) ==
    IF s = <<>> THEN <<>>
    ELSE (IF matches(Head(s), config) THEN <<Head(s)>> ELSE <<>>)
         \o Matching(Tail(s), config)

\* a matching_versions that forgets the filter
matching_versions_unfiltered(versions, config) == sorted_versions(versions)

\* DetailedMod.matching_versions
matching_versions(versions, config) ==
    Matching(sorted_versions(versions), config)

\* InstalledMod.from_version: the dataclass has the seven fields below
from_version(modname, version, provider) ==
    [id |-> version.modid, name |-> modname, version_id |-> version.id,
     installed_file |-> version.filename, installed_version |-> version.version,
     source_url |-> version.url, provider_id |-> provider]

\* getattr(installed_mod, "pinned") finds the attribute
HasPinned(installed_mod) == "pinned" \in DOMAIN installed_mod

-----------------------------------------------------------------------------
(* The registry (modrinth.py): what GET mod/<id> and version/<id> answer *)

ModIds == {"X", "Y"}

\* what a user may type for a mod: an id, a slug, or something unknown
Names == {"X", "x-slug", "Y", "Q"}

NotFound == "NotFound"

\* hit["id"] of GET mod/<modid>, which takes an id or a slug
Resolve(modid) ==
    CASE modid \in {"X", "x-slug"} -> "X"
      [] modid = "Y" -> "Y"
      [] OTHER -> NotFound

\* hit["title"]
ModName(id) == IF id = "X" THEN "Mod X" ELSE "Mod Y"

\* every version a mod will ever have, in the order hit["versions"] lists them
Catalogue ==
    [m \in ModIds |->
        IF m = "X"
        THEN << ModVersion("x1", "X", "x-1.jar", 2, {"fabric"}, {"1.20.1"}),
                ModVersion("x0", "X", "x-0.jar", 1, {"forge"}, {"1.20.1"}),
                ModVersion("x2", "X", "x-2.jar", 3, {"fabric"}, {"1.20.1", "1.19"}) >>
        ELSE << ModVersion("y0", "Y", "y-0.jar", 1, {"forge"}, {"1.20.1"}),
                ModVersion("y1", "Y", "x-1.jar", 2, {"fabric", "forge"}, {"1.20.1"}) >>]

VersionIds == UNION {{Catalogue[m][i].id : i \in 1..Len(Catalogue[m])} : m \in ModIds}

Filenames == UNION {{Catalogue[m][i].filename : i \in 1..Len(Catalogue[m])} : m \in ModIds}

\* DetailedMod.versions of the answer of detailed_info(id) now
RegistryVersions(id) == SubSeq(Catalogue[id], 1, published[id])

ProviderId == "modrinth"

-----------------------------------------------------------------------------
(* config.py: Config *)

\* Config.is_mod_installed
is_mod_installed(m, modid) == modid \in DOMAIN m

\* an add_mod that forgets the other entries
add_mod_alone(m, mod) == [id \in {mod.id} |-> mod]

\* Config.add_mod: self.mods[mod.id] = mod
add_mod(m, mod) ==
    [id \in DOMAIN m \cup {mod.id} |-> IF id = mod.id THEN mod ELSE m[id]]

\* a remove_mod that forgets the entry
remove_mod_keeps_entry(m, modid) == m

\* Config.remove_mod, the manifest half: del self.mods[modid]
remove_mod(m, modid) == [id \in DOMAIN m \ {modid} |-> m[id]]

\* what a file holds: nothing (it does not exist), a truncated download, or
\* the bytes of one version
Absent == "absent"

Partial == "partial"

Contents == {Absent, Partial} \cup VersionIds

\* jars the user has from elsewhere: x1 under the name the registry gives it,
\* and the forge build y0 of Y under a name of the user's own
ForeignJars ==
    {[file |-> "x-1.jar", holds |-> "x1"], [file |-> "y-forge.jar", holds |-> "y0"]}

\* the file names of the mods directory
Files == Filenames \cup {jar.file : jar \in ForeignJars}

\* an is_file_known that knows no file
is_file_known_never(m, file) == FALSE

\* Config.is_file_known
is_file_known(m, file) == \E id \in DOMAIN m : m[id].installed_file = file

\* a remove_mod that forgets the file
remove_file_keeps(d, m, modid) == d

\* Config.remove_mod, the file half: os.remove(installed_file), absence ignored
remove_file(d, m, modid) == [d EXCEPT ![m[modid].installed_file] = Absent]

\* the fields of the InstalledMod dataclass
DataclassFields ==
    {"id", "name", "version_id", "installed_version", "installed_file",
     "source_url", "provider_id"}

\* dacite.from_dict(InstalledMod, record): keys that are no field are dropped
from_dict(record) == [f \in DataclassFields |-> record[f]]

\* Config.load_from
load_from(file_mods) == [id \in DOMAIN file_mods |-> from_dict(file_mods[id])]

\* Config.save: the "mods" list is asdict of every InstalledMod
save(m) == [id \in DOMAIN m |-> m[id]]

\* the record of the file says pinned = true
FilePinned(record) == HasPinned(record) /\ record.pinned

NoMods == [id \in {} |-> id]

\* the version and loader of an existing .mods.toml
Header(version, loader) == [exists |-> TRUE, version |-> version, loader |-> loader]

\* there is no .mods.toml
NoFile == [exists |-> FALSE, version |-> "", loader |-> ""]

\* a Config.init that does not look for the file
init_overwrites(file, file_mods, version, loader) ==
    [raised |-> "", file |-> Header(version, loader), mods |-> save(NoMods)]

\* Config.init: what it raises, and .mods.toml and its mods list after it
init(file, file_mods, version, loader) ==
    IF ~file.exists
    THEN [raised |-> "", file |-> Header(version, loader), mods |-> save(NoMods)]
    ELSE [raised |-> "ValueError", file |-> file, mods |-> file_mods]

\* no init command has run
NoOutcome == [result |-> "", game_version |-> "", mod_loader |-> "", force |-> FALSE]

-----------------------------------------------------------------------------
(* main.py: a command and its coroutines *)

Idle == [kind |-> "idle", version_id |-> ""]

Command(kind, version_id) == [kind |-> kind, version_id |-> version_id]

\* a coroutine before its first step: arg is the mod id or the file it was
\* given, mod the InstalledMod it was given (find_upgrade) or returned, found
\* the version find_upgrade returned, sha the hash discover computed
Task(arg, mod) ==
    [arg |-> arg, pc |-> "start", id |-> "", versions |-> <<>>, mod |-> mod,
     found |-> <<>>, sha |-> "", result |-> "pending"]

Raise(task, error) == [task EXCEPT !.pc = "done", !.result = error]

Return(task, value) == [task EXCEPT !.pc = "done", !.result = value]

AllDone == \A t \in DOMAIN tasks : tasks[t].pc = "done"

\* the ids of a set in the order of the dict they are the keys of
KeysOf(S) == SelectSeq(<<"X", "Y">>, LAMBDA id : id \in S)

\* no command is running
NoProcess == cmd.kind \in {"idle", "crashed"}

\* load_or_fail, before the yield: Config.load_from(.mods.toml)
Load(kind, version_id, coroutines) ==
    /\ NoProcess
    /\ manifest.exists
    /\ ncmds < MaxCmds
    /\ ncmds' = ncmds + 1
    /\ mods' = load_from(saved)
    /\ loaded_pinned' = {id \in DOMAIN saved : FilePinned(saved[id])}
    /\ cmd' = Command(kind, version_id)
    /\ tasks' = coroutines
    /\ UNCHANGED <<published, disk, saved, last, rvvars, initvars, hashvars, togglevars>>

\* no add that installed a mod ran last, or no history is kept
NoCommand == [kind |-> "idle", before |-> NoMods, installed |-> {}, registry |-> <<>>]

\* the ids the coroutines of the running command have installed
Installed == {tasks[t].id : t \in {u \in DOMAIN tasks : tasks[u].result = "Installed"}}

\* what is remembered of the running command when it saves: for an add that
\* installed a mod, the manifest file it had loaded, the ids it installed and
\* the registry as it is now
Ended ==
    IF cmd.kind = "add" /\ Installed # {}
    THEN [kind |-> "add", before |-> saved, installed |-> Installed,
          registry |-> published]
    ELSE NoCommand

\* load_or_fail, after the yield: config.save(), and the process ends;
\* history is what an observer of the command notes down at that moment
SaveNoting(history) ==
    /\ ~NoProcess
    /\ AllDone
    /\ saved' = save(mods)
    /\ last' = history
    /\ cmd' = Idle
    /\ tasks' = <<>>
    /\ mods' = NoMods
    /\ loaded_pinned' = {}
    /\ UNCHANGED <<published, disk, ncmds, rvvars, initvars, hashvars, togglevars>>

\* the command ends, unobserved
Save == SaveNoting(NoCommand)

\* the command ends and the observer notes what it was
SaveObserved == SaveNoting(Ended)

\* an exception leaves the with-block of load_or_fail: nothing is saved
Abort ==
    /\ last' = NoCommand
    /\ cmd' = Idle
    /\ tasks' = <<>>
    /\ mods' = NoMods
    /\ loaded_pinned' = {}
    /\ UNCHANGED <<saved, published, ncmds, rvvars, initvars, hashvars, togglevars>>

\* the process is killed while the command runs: nothing after the point it
\* had reached is run, config.save() included. The Config the process held
\* is lost with it; the next command loads its own.
Crashed == [kind |-> "crashed", version_id |-> ""]

Crash ==
    /\ cmd.kind \notin {"idle", "crashed"}
    /\ cmd' = Crashed
    /\ tasks' = <<>>
    /\ loaded_pinned' = {}
    /\ last' = NoCommand
    /\ mods' = NoMods
    /\ UNCHANGED <<published, disk, saved, ncmds, rvvars, initvars, hashvars, togglevars>>

\* no call of disable or enable: op, the id of the mod, what the call
\* raised, what its source file held before it; replaces says whether
\* os.rename replaces an existing destination
NoCall == [op |-> "none", id |-> "", raised |-> "", had |-> "absent"]

NotToggled ==
    [op |-> "none", id |-> "", raised |-> "", had |-> "absent",
     replaces |-> TRUE, prev |-> NoCall]

\* file_hash is not running
NoHashing ==
    fh = [file |-> <<>>, pc |-> "idle", data |-> <<>>, call |-> <<>>, result |-> <<>>]

Init ==
    /\ published = [m \in ModIds |-> 1]
    /\ disk = [f \in Files |-> Absent]
    /\ saved = NoMods
    /\ mods = NoMods
    /\ cmd = Idle
    /\ tasks = <<>>
    /\ ncmds = 0
    /\ loaded_pinned = {}
    /\ last = NoCommand
    /\ rv_versions = <<>>
    /\ rv_config = Platform
    /\ rv_result = [done |-> FALSE, value |-> <<>>]
    /\ manifest = Header(Platform.version, Platform.loader)
    /\ outcome = NoOutcome
    /\ NoHashing
    /\ toggled = NotToggled

-----------------------------------------------------------------------------
(* The world around the program *)

\* the author of mod m publishes its next version
Publish(m) ==
    /\ published[m] < Len(Catalogue[m])
    /\ published' = [published EXCEPT ![m] = @ + 1]
    /\ UNCHANGED <<disk, saved, mods, cmd, tasks, ncmds, loaded_pinned, last, rvvars, initvars, hashvars, togglevars>>

\* the user writes pinned = true into the record of mod id in .mods.toml
Pin(id) ==
    /\ NoProcess
    /\ id \in DOMAIN saved
    /\ ~HasPinned(saved[id])
    /\ saved' = [saved EXCEPT ![id] =
                    [f \in DOMAIN saved[id] \cup {"pinned"} |->
                        IF f = "pinned" THEN TRUE ELSE saved[id][f]]]
    /\ UNCHANGED <<published, disk, mods, cmd, tasks, ncmds, loaded_pinned, last, rvvars, initvars, hashvars, togglevars>>

\* the user copies such a jar into the mods directory, between two commands
DropFile(jar) ==
    /\ NoProcess
    /\ disk[jar.file] = Absent
    /\ disk' = [disk EXCEPT ![jar.file] = jar.holds]
    /\ UNCHANGED <<published, saved, mods, cmd, tasks, ncmds, loaded_pinned, last, rvvars, initvars, hashvars, togglevars>>

-----------------------------------------------------------------------------
(* ModrinthAPI.download: GET version.url, open(version.filename, "wb"), write *)

\* the response arrived and the file was opened for writing: it is truncated
DownloadOpen(t) ==
    /\ t \in DOMAIN tasks
    /\ tasks[t].pc = "download"
    /\ disk' = [disk EXCEPT ![tasks[t].versions[1].filename] = Partial]
    /\ tasks' = [tasks EXCEPT ![t].pc = "writing"]
    /\ UNCHANGED <<published, saved, mods, cmd, ncmds, loaded_pinned, last, rvvars, initvars, hashvars, togglevars>>

\* the request or the transfer failed: the callers wrap it or print it
DownloadFail(t) ==
    /\ t \in DOMAIN tasks
    /\ tasks[t].pc \in {"download", "writing"}
    /\ tasks' = [tasks EXCEPT ![t] = Raise(@, "DownloadFailed")]
    /\ UNCHANGED <<published, disk, saved, mods, cmd, ncmds, loaded_pinned, last, rvvars, initvars, hashvars, togglevars>>

\* the file after f.write(await resp.read())
Written(d, version) == [d EXCEPT ![version.filename] = version.id]

-----------------------------------------------------------------------------
(* main.add and ModProvider.add *)

BeginAdd(mod_ids) ==
    /\ mod_ids # <<>>
    /\ Load("add", "", [t \in DOMAIN mod_ids |-> Task(mod_ids[t], <<>>)])

\* an add that enters the mod in the manifest before it downloads it
AddInfo_insert_first(t) ==
    /\ cmd.kind = "add"
    /\ t \in DOMAIN tasks
    /\ tasks[t].pc = "start"
    /\ LET id == Resolve(tasks[t].arg)
           versions == matching_versions(RegistryVersions(id), Platform)
           proceeds == id # NotFound /\ ~is_mod_installed(mods, id) /\ versions # <<>>
       IN  /\ tasks' = [tasks EXCEPT ![t] =
                IF id = NotFound THEN Raise(@, "NotFound")
                ELSE IF is_mod_installed(mods, id) THEN Raise(@, "AlreadyInstalled")
                ELSE IF versions = <<>> THEN Raise(@, "NoCompatibleVersion")
                ELSE [@ EXCEPT !.pc = "download", !.id = id, !.versions = versions]]
           /\ mods' = IF proceeds
                      THEN add_mod(mods, from_version(ModName(id), versions[1], ProviderId))
                      ELSE mods
    /\ UNCHANGED <<published, disk, saved, cmd, ncmds, loaded_pinned, last, rvvars, initvars, hashvars, togglevars>>

\* add, from its start to the await of download
AddInfo(t) ==
    /\ cmd.kind = "add"
    /\ t \in DOMAIN tasks
    /\ tasks[t].pc = "start"
    /\ LET id == Resolve(tasks[t].arg)
           versions == matching_versions(RegistryVersions(id), Platform)
       IN  tasks' = [tasks EXCEPT ![t] =
                IF id = NotFound THEN Raise(@, "NotFound")
                ELSE IF is_mod_installed(mods, id) THEN Raise(@, "AlreadyInstalled")
                ELSE IF versions = <<>> THEN Raise(@, "NoCompatibleVersion")
                ELSE [@ EXCEPT !.pc = "download", !.id = id, !.versions = versions]]
    /\ UNCHANGED <<published, disk, saved, mods, cmd, ncmds, loaded_pinned, last, rvvars, initvars, hashvars, togglevars>>

\* an add that saves the manifest as soon as it has entered the mod
AddInstalled_saves(t) ==
    /\ cmd.kind = "add"
    /\ t \in DOMAIN tasks
    /\ tasks[t].pc = "writing"
    /\ LET version == tasks[t].versions[1]
           installed_mod == from_version(ModName(tasks[t].id), version, ProviderId)
       IN  /\ disk' = Written(disk, version)
           /\ mods' = add_mod(mods, installed_mod)
           /\ saved' = save(add_mod(mods, installed_mod))
           /\ tasks' = [tasks EXCEPT ![t] =
                            Return([@ EXCEPT !.mod = <<installed_mod>>], "Installed")]
    /\ UNCHANGED <<published, cmd, ncmds, loaded_pinned, last, rvvars, initvars, hashvars, togglevars>>

\* add, from the return of download to its end
AddInstalled(t) ==
    /\ cmd.kind = "add"
    /\ t \in DOMAIN tasks
    /\ tasks[t].pc = "writing"
    /\ LET version == tasks[t].versions[1]
           installed_mod == from_version(ModName(tasks[t].id), version, ProviderId)
       IN  /\ disk' = Written(disk, version)
           /\ mods' = add_mod(mods, installed_mod)
           /\ tasks' = [tasks EXCEPT ![t] =
                            Return([@ EXCEPT !.mod = <<installed_mod>>], "Installed")]
    /\ UNCHANGED <<published, saved, cmd, ncmds, loaded_pinned, last, rvvars, initvars, hashvars, togglevars>>

-----------------------------------------------------------------------------
(* main.upgrade and ModProvider.upgrade *)

BeginUpgrade(mod_ids) ==
    LET loaded == load_from(saved)
        ids == IF mod_ids = <<>>
               THEN KeysOf({id \in DOMAIN loaded : loaded[id].provider_id = ProviderId})
               ELSE mod_ids
    IN  Load("upgrade", "", [t \in DOMAIN ids |-> Task(ids[t], <<>>)])

\* upgrade, from its start to the await of find_upgrade (provider.py:56-67).
\* No InstalledMod has an attribute pinned (mod.py:39-50), so reading it
\* raises AttributeError and lines 67-85 are never run.
UpgradeInfo(t) ==
    /\ cmd.kind = "upgrade"
    /\ t \in DOMAIN tasks
    /\ tasks[t].pc = "start"
    /\ LET id == Resolve(tasks[t].arg)
           installed_mod == mods[id]
       IN  tasks' = [tasks EXCEPT ![t] =
                IF id = NotFound THEN Raise(@, "NotFound")
                ELSE IF ~is_mod_installed(mods, id) THEN Raise(@, "NotInstalled")
                ELSE IF ~HasPinned(installed_mod)
                     THEN Raise([@ EXCEPT !.id = id], "AttributeError")
                ELSE IF installed_mod.pinned THEN Return([@ EXCEPT !.id = id], "None")
                ELSE [@ EXCEPT !.pc = "find_upgrade", !.id = id,
                               !.mod = <<installed_mod>>]]
    /\ UNCHANGED <<published, disk, saved, mods, cmd, ncmds, loaded_pinned, last, rvvars, initvars, hashvars, togglevars>>

-----------------------------------------------------------------------------
(* main.outdated and ModProvider.find_upgrade *)

BeginOutdated ==
    LET loaded == load_from(saved)
        ids == KeysOf({id \in DOMAIN loaded : loaded[id].provider_id = ProviderId})
    IN  Load("outdated", "", [t \in DOMAIN ids |-> Task(ids[t], <<loaded[ids[t]]>>)])

\* a find_upgrade that compares the version's id with the id of the mod
find_upgrade_compares_mod_id(task, versions) ==
    IF versions = <<>> THEN Raise(task, "NoCompatibleVersion")
    ELSE IF versions[1].id = task.mod[1].id THEN Return(task, "None")
    ELSE Return([task EXCEPT !.found = <<versions[1]>>], "Upgrade")

\* what find_upgrade does with the versions detailed_info answered
find_upgrade(task, versions) ==
    IF versions = <<>> THEN Raise(task, "NoCompatibleVersion")
    ELSE IF versions[1].id = task.mod[1].version_id THEN Return(task, "None")
    ELSE Return([task EXCEPT !.found = <<versions[1]>>], "Upgrade")

\* find_upgrade(mod), whole: its one await is detailed_info
FindUpgrade(t) ==
    /\ cmd.kind = "outdated"
    /\ t \in DOMAIN tasks
    /\ tasks[t].pc = "start"
    /\ LET id == Resolve(tasks[t].mod[1].id)
           versions == matching_versions(RegistryVersions(id), Platform)
       IN  tasks' = [tasks EXCEPT ![t] =
                IF id = NotFound THEN Raise(@, "NotFound")
                ELSE find_upgrade([@ EXCEPT !.id = id, !.versions = versions], versions)]
    /\ UNCHANGED <<published, disk, saved, mods, cmd, ncmds, loaded_pinned, last, rvvars, initvars, hashvars, togglevars>>

-----------------------------------------------------------------------------
(* main.remove *)

BeginRemove(mod_ids, all) ==
    LET ids == IF all /\ mod_ids = <<>> THEN KeysOf(DOMAIN load_from(saved))
               ELSE mod_ids
    IN  Load("remove", "", [t \in DOMAIN ids |-> Task(ids[t], <<>>)])

\* the first id of the loop not handled yet
NextInLoop(t) ==
    /\ t \in DOMAIN tasks
    /\ tasks[t].pc = "start"
    /\ \A u \in 1..(t - 1) : tasks[u].pc = "done"

\* a remove that reports a mod that is not installed as deleted
RemoveOne_reports_deleted(t) ==
    /\ cmd.kind = "remove"
    /\ NextInLoop(t)
    /\ LET id == Resolve(tasks[t].arg)
       IN  /\ id # NotFound
           /\ IF is_mod_installed(mods, id)
              THEN /\ disk' = remove_file(disk, mods, id)
                   /\ mods' = remove_mod(mods, id)
                   /\ tasks' = [tasks EXCEPT ![t] =
                                   Return([@ EXCEPT !.id = id, !.mod = <<mods[id]>>],
                                          "Deleted")]
              ELSE /\ tasks' = [tasks EXCEPT ![t] =
                                   Return([@ EXCEPT !.id = id], "Deleted")]
                   /\ UNCHANGED <<disk, mods>>
    /\ UNCHANGED <<published, saved, cmd, ncmds, loaded_pinned, last, rvvars, initvars, hashvars, togglevars>>

\* one round of the loop of remove, for a mod the registry knows
RemoveOne(t) ==
    /\ cmd.kind = "remove"
    /\ NextInLoop(t)
    /\ LET id == Resolve(tasks[t].arg)
       IN  /\ id # NotFound
           /\ IF is_mod_installed(mods, id)
              THEN /\ disk' = remove_file(disk, mods, id)
                   /\ mods' = remove_mod(mods, id)
                   /\ tasks' = [tasks EXCEPT ![t] =
                                   Return([@ EXCEPT !.id = id, !.mod = <<mods[id]>>],
                                          "Deleted")]
              ELSE /\ tasks' = [tasks EXCEPT ![t] =
                                   Raise([@ EXCEPT !.id = id], "NotInstalled")]
                   /\ UNCHANGED <<disk, mods>>
    /\ UNCHANGED <<published, saved, cmd, ncmds, loaded_pinned, last, rvvars, initvars, hashvars, togglevars>>

\* api.info raises KeyError: nothing in remove catches it
RemoveNotFound(t) ==
    /\ cmd.kind = "remove"
    /\ NextInLoop(t)
    /\ Resolve(tasks[t].arg) = NotFound
    /\ Abort
    /\ UNCHANGED disk

-----------------------------------------------------------------------------
(* main.install *)

BeginInstall(mod_id, version_id) ==
    Load("install", version_id, <<Task(mod_id, <<>>)>>)

\* install, from its start to the await of download, for a mod the registry
\* knows; without a version of that id among the matching ones nothing is done
InstallInfo ==
    /\ cmd.kind = "install"
    /\ tasks[1].pc = "start"
    /\ LET id == Resolve(tasks[1].arg)
           versions == matching_versions(RegistryVersions(id), Platform)
           chosen == SelectSeq(versions, LAMBDA v : v.id = cmd.version_id)
       IN  /\ id # NotFound
           /\ tasks' = [tasks EXCEPT ![1] =
                  IF chosen = <<>> THEN Return([@ EXCEPT !.id = id], "None")
                  ELSE [@ EXCEPT !.pc = "download", !.id = id, !.versions = chosen]]
    /\ UNCHANGED <<published, disk, saved, mods, cmd, ncmds, loaded_pinned, last, rvvars, initvars, hashvars, togglevars>>

\* api.detailed_info raises KeyError outside the try of install
InstallNotFound ==
    /\ cmd.kind = "install"
    /\ tasks[1].pc = "start"
    /\ Resolve(tasks[1].arg) = NotFound
    /\ Abort
    /\ UNCHANGED disk

\* install, from the return of download to the end of the loop body: the
\* test and the removal use mod_id as typed, not info.id
InstallInstalled ==
    /\ cmd.kind = "install"
    /\ tasks[1].pc = "writing"
    /\ LET mod_id == tasks[1].arg
           version == tasks[1].versions[1]
           installed_version == from_version(ModName(tasks[1].id), version, ProviderId)
           written == Written(disk, version)
       IN  /\ IF is_mod_installed(mods, mod_id)
              THEN /\ disk' = remove_file(written, mods, mod_id)
                   /\ mods' = add_mod(remove_mod(mods, mod_id), installed_version)
              ELSE /\ disk' = written
                   /\ mods' = add_mod(mods, installed_version)
           /\ tasks' = [tasks EXCEPT ![1] =
                           Return([@ EXCEPT !.mod = <<installed_version>>], "Installed")]
    /\ UNCHANGED <<published, saved, cmd, ncmds, loaded_pinned, last, rvvars, initvars, hashvars, togglevars>>

-----------------------------------------------------------------------------
(* main.discover and ModrinthAPI.discover *)

\* only the files no entry of the manifest names are looked at
BeginDiscover(mod_files) ==
    LET loaded == load_from(saved)
        files == SelectSeq(mod_files, LAMBDA file : ~is_file_known(loaded, file))
    IN  /\ mod_files # <<>>
        /\ Load("discover", "", [t \in DOMAIN files |-> Task(files[t], <<>>)])

\* discover, to the await of the registry's answer: file_hash reads the file
DiscoverHash(t) ==
    /\ cmd.kind = "discover"
    /\ t \in DOMAIN tasks
    /\ tasks[t].pc = "start"
    /\ tasks' = [tasks EXCEPT ![t] =
          IF disk[tasks[t].arg] = Absent THEN Raise(@, "FileNotFound")
          ELSE [@ EXCEPT !.pc = "identify", !.sha = disk[tasks[t].arg]]]
    /\ UNCHANGED <<published, disk, saved, mods, cmd, ncmds, loaded_pinned, last, rvvars, initvars, hashvars, togglevars>>

\* the versions the registry has a file of that hash for
VersionsOfHash(sha) ==
    {v \in UNION {{Catalogue[m][i] : i \in 1..published[m]} : m \in ModIds} : v.id = sha}

\* discover, from the answer of GET version_file/<sha> to the await of info
DiscoverIdentify(t) ==
    /\ cmd.kind = "discover"
    /\ t \in DOMAIN tasks
    /\ tasks[t].pc = "identify"
    /\ tasks' = [tasks EXCEPT ![t] =
          IF VersionsOfHash(tasks[t].sha) = {} THEN Raise(@, "UnidentifiableFile")
          ELSE LET version == CHOOSE v \in VersionsOfHash(tasks[t].sha) : TRUE
               IN  [@ EXCEPT !.pc = "info", !.id = version.modid, !.versions = <<version>>]]
    /\ UNCHANGED <<published, disk, saved, mods, cmd, ncmds, loaded_pinned, last, rvvars, initvars, hashvars, togglevars>>

\* discover, from the answer of info to its end
DiscoverInstalled(t) ==
    /\ cmd.kind = "discover"
    /\ t \in DOMAIN tasks
    /\ tasks[t].pc = "info"
    /\ LET version == tasks[t].versions[1]
           installed_mod == from_version(ModName(Resolve(version.modid)), version, ProviderId)
       IN  /\ mods' = add_mod(mods, installed_mod)
           /\ tasks' = [tasks EXCEPT ![t] =
                           Return([@ EXCEPT !.mod = <<installed_mod>>], "Discovered")]
    /\ UNCHANGED <<published, disk, saved, cmd, ncmds, loaded_pinned, last, rvvars, initvars, hashvars, togglevars>>

-----------------------------------------------------------------------------
(* The program *)

\* the place of a name in the alphabet
Ord(name) ==
    CASE name = "Q" -> 1 [] name = "X" -> 2 [] name = "Y" -> 3 [] OTHER -> 4

\* the id lists of a command that runs its ids concurrently: as_completed
\* starts them all at once, so one order of every multiset of ids stands for all
Batches ==
    {ids \in SeqsUpTo(Names, MaxBatch) :
        \A i, j \in 1..Len(ids) : i < j => Ord(ids[i]) <= Ord(ids[j])}

\* the place of a file name in the alphabet
FileOrd(file) ==
    CASE file = "x-0.jar" -> 1 [] file = "x-1.jar" -> 2 [] file = "x-2.jar" -> 3
      [] file = "y-0.jar" -> 4 [] OTHER -> 5

\* the file lists of discover, one order of every multiset
FileBatches ==
    {files \in SeqsUpTo(Files, MaxBatch) :
        \A i, j \in 1..Len(files) : i < j => FileOrd(files[i]) <= FileOrd(files[j])}

\* the id lists of remove, in every order: remove handles them one by one
OrderedBatches == SeqsUpTo(Names, MaxBatch)

\* a command starts only when none runs: the guard of Load, stated before
\* the arguments are chosen
Next ==
    \/ NoProcess /\ \E mod_ids \in Batches : BeginAdd(mod_ids)
    \/ NoProcess /\ \E mod_ids \in Batches : BeginUpgrade(mod_ids)
    \/ BeginOutdated
    \/ NoProcess /\ \E mod_ids \in OrderedBatches, all \in BOOLEAN : BeginRemove(mod_ids, all)
    \/ NoProcess /\ \E mod_id \in Names, version_id \in VersionIds : BeginInstall(mod_id, version_id)
    \/ NoProcess /\ \E mod_files \in FileBatches : BeginDiscover(mod_files)
    \/ \E t \in 1..MaxBatch : DiscoverHash(t)
    \/ \E t \in 1..MaxBatch : DiscoverIdentify(t)
    \/ \E t \in 1..MaxBatch : DiscoverInstalled(t)
    \/ \E t \in 1..MaxBatch : AddInfo(t)
    \/ \E t \in 1..MaxBatch : AddInstalled(t)
    \/ \E t \in 1..MaxBatch : DownloadOpen(t)
    \/ \E t \in 1..MaxBatch : DownloadFail(t)
    \/ \E t \in 1..MaxBatch : UpgradeInfo(t)
    \/ \E t \in 1..MaxBatch : FindUpgrade(t)
    \/ \E t \in 1..MaxBatch : RemoveOne(t)
    \/ \E t \in 1..MaxBatch : RemoveNotFound(t)
    \/ InstallInfo
    \/ InstallNotFound
    \/ InstallInstalled
    \/ Save
    \/ Crash
    \/ \E m \in ModIds : Publish(m)
    \/ \E id \in ModIds : Pin(id)
    \/ \E jar \in ForeignJars : DropFile(jar)

Spec == Init /\ [][Next]_vars

-----------------------------------------------------------------------------
(* add and the command that follows it: add, remove and upgrade from the     *)
(* manifests and mods directories below, with the history of the last add   *)

\* manifest and mods directory before the first command: nothing installed;
\* Y added at y1, which the registry names x-1.jar; Y discovered at y0 in
\* y-forge.jar, entered under the registry's name y-0.jar
Earlier ==
    LET empty == [f \in Files |-> Absent]
        entry(v) == from_version(ModName("Y"), v, ProviderId)
    IN  { [saved |-> NoMods, disk |-> empty, least |-> 1],
          [saved |-> add_mod(NoMods, entry(Catalogue["Y"][2])),
           disk |-> Written(empty, Catalogue["Y"][2]), least |-> 2],
          [saved |-> add_mod(NoMods, entry(Catalogue["Y"][1])),
           disk |-> [empty EXCEPT !["y-forge.jar"] = "y0"], least |-> 1] }

InitAfterAdd ==
    /\ \E e \in Earlier :
          /\ saved = e.saved
          /\ disk = e.disk
          /\ published \in {p \in [ModIds -> 1..3] :
                               /\ \A m \in ModIds : p[m] <= Len(Catalogue[m])
                               /\ p["Y"] >= e.least}
    /\ mods = NoMods
    /\ cmd = Idle
    /\ tasks = <<>>
    /\ ncmds = 0
    /\ loaded_pinned = {}
    /\ last = NoCommand
    /\ rv_versions = <<>>
    /\ rv_config = Platform
    /\ rv_result = [done |-> FALSE, value |-> <<>>]
    /\ manifest = Header(Platform.version, Platform.loader)
    /\ outcome = NoOutcome
    /\ NoHashing
    /\ toggled = NotToggled

NextAfterAdd ==
    \/ NoProcess /\ \E mod_ids \in Batches : BeginAdd(mod_ids)
    \/ NoProcess /\ \E mod_ids \in Batches : BeginUpgrade(mod_ids)
    \/ NoProcess /\ \E mod_ids \in OrderedBatches, all \in BOOLEAN : BeginRemove(mod_ids, all)
    \/ \E t \in 1..MaxBatch : AddInfo(t)
    \/ \E t \in 1..MaxBatch : AddInstalled(t)
    \/ \E t \in 1..MaxBatch : DownloadOpen(t)
    \/ \E t \in 1..MaxBatch : DownloadFail(t)
    \/ \E t \in 1..MaxBatch : UpgradeInfo(t)
    \/ \E t \in 1..MaxBatch : RemoveOne(t)
    \/ \E t \in 1..MaxBatch : RemoveNotFound(t)
    \/ SaveObserved
    \/ \E m \in ModIds : Publish(m)

SpecAfterAdd == InitAfterAdd /\ [][NextAfterAdd]_vars

-----------------------------------------------------------------------------
(* main.init on its own: every init command, with and without --force,      *)
(* where there is no .mods.toml and where there is one                      *)

\* game versions a user may name; the loaders are click.Choice of mod_loader
GameVersions == {"1.20.1", "1.19", "1.18"}

Loaders == {"fabric", "forge"}

\* main.init, whole: it awaits nothing
InitCommand(game_version, mod_loader, force) ==
    LET unlinked == IF force THEN NoFile ELSE manifest
        unlinked_mods == IF force THEN NoMods ELSE saved
        made == init(unlinked, unlinked_mods, game_version, mod_loader)
    IN  /\ NoProcess
        /\ manifest' = made.file
        /\ saved' = made.mods
        /\ outcome' = [result |-> IF made.raised = "" THEN "Initialized" ELSE made.raised,
                       game_version |-> game_version, mod_loader |-> mod_loader,
                       force |-> force]
        /\ UNCHANGED <<published, disk, mods, cmd, tasks, ncmds, loaded_pinned, last, rvvars, hashvars, togglevars>>

InitInit ==
    /\ \/ manifest = NoFile /\ saved = NoMods
       \/ /\ manifest \in {Header(v, l) : v \in GameVersions, l \in Loaders}
          /\ saved \in {e.saved : e \in Earlier}
    /\ outcome = NoOutcome
    /\ published = [m \in ModIds |-> Len(Catalogue[m])]
    /\ disk = [f \in Files |-> Absent]
    /\ mods = NoMods
    /\ cmd = Idle
    /\ tasks = <<>>
    /\ ncmds = 0
    /\ loaded_pinned = {}
    /\ last = NoCommand
    /\ rv_versions = <<>>
    /\ rv_config = Platform
    /\ rv_result = [done |-> FALSE, value |-> <<>>]
    /\ NoHashing
    /\ toggled = NotToggled

NextInit ==
    \E game_version \in GameVersions, mod_loader \in Loaders, force \in BOOLEAN :
        InitCommand(game_version, mod_loader, force)

SpecInit == InitInit /\ [][NextInit]_vars

-----------------------------------------------------------------------------
(* DetailedMod.matching_versions on its own: every version list of at most  *)
(* MaxLen versions of the pool, in every order, against every platform      *)

VersionPool ==
    { ModVersion("a", "X", "a.jar", 1, {"fabric"}, {"1.20.1"}),
      ModVersion("b", "X", "b.jar", 2, {"fabric"}, {"1.20.1"}),
      ModVersion("c", "X", "c.jar", 2, {"fabric", "forge"}, {"1.20.1", "1.19"}),
      ModVersion("d", "X", "d.jar", 3, {"forge"}, {"1.20.1"}),
      ModVersion("e", "X", "e.jar", 1, {"fabric"}, {"1.19"}) }

ConfigPool == [version : {"1.20.1", "1.19"}, loader : {"fabric", "forge"}]

InitResolver ==
    /\ rv_versions \in {s \in SeqsUpTo(VersionPool, MaxLen) : Injective(s)}
    /\ rv_config \in ConfigPool
    /\ rv_result = [done |-> FALSE, value |-> <<>>]
    /\ manifest = Header(Platform.version, Platform.loader)
    /\ outcome = NoOutcome
    /\ published = [m \in ModIds |-> 1]
    /\ disk = [f \in Files |-> Absent]
    /\ saved = NoMods
    /\ mods = NoMods
    /\ cmd = Idle
    /\ tasks = <<>>
    /\ ncmds = 0
    /\ loaded_pinned = {}
    /\ last = NoCommand
    /\ NoHashing
    /\ toggled = NotToggled

ResolveVersions ==
    /\ ~rv_result.done
    /\ rv_result' = [done |-> TRUE, value |-> matching_versions(rv_versions, rv_config)]
    /\ UNCHANGED <<rv_versions, rv_config, progvars, initvars, hashvars, togglevars>>

NextResolver == ResolveVersions

SpecResolver == InitResolver /\ [][NextResolver]_vars

-----------------------------------------------------------------------------
(* murmur2: MurmurHash2 on 32-bit words. A word is its two 16-bit halves,   *)
(* so that no intermediate value passes 2^31.                               *)

Word(hi, lo) == [hi |-> hi, lo |-> lo]

RECURSIVE Xor(_, _)
\* a ^ b
Xor(a, b) ==
    IF a = 0 THEN b
    ELSE IF b = 0 THEN a
    ELSE ((a + b) % 2) + 2 * Xor(a \div 2, b \div 2)

XorWord(x, y) == Word(Xor(x.hi, y.hi), Xor(x.lo, y.lo))

\* (x * 0x5bd1e995) % 2^32, byte by byte
MulM(x) ==
    LET a0 == x.lo % 256
        a1 == x.lo \div 256
        a2 == x.hi % 256
        a3 == x.hi \div 256
        m0 == 149
        m1 == 233
        m2 == 209
        m3 == 91
        t0 == a0 * m0
        t1 == a0 * m1 + a1 * m0 + (t0 \div 256)
        t2 == a0 * m2 + a1 * m1 + a2 * m0 + (t1 \div 256)
        t3 == a0 * m3 + a1 * m2 + a2 * m1 + a3 * m0 + (t2 \div 256)
    IN  Word((t3 % 256) * 256 + (t2 % 256), (t1 % 256) * 256 + (t0 % 256))

\* x >> n
Shr(x, n) ==
    IF n >= 16 THEN Word(0, x.hi \div (2^(n - 16)))
    ELSE Word(x.hi \div (2^n), (x.hi % (2^n)) * (2^(16 - n)) + (x.lo \div (2^n)))

\* the last one to three bytes, and the multiplication that follows them
MixTail(h, tail) ==
    LET h3 == IF Len(tail) >= 3 THEN XorWord(h, Word(tail[3], 0)) ELSE h
        h2 == IF Len(tail) >= 2 THEN XorWord(h3, Word(0, tail[2] * 256)) ELSE h3
    IN  IF tail = <<>> THEN h ELSE MulM(XorWord(h2, Word(0, tail[1])))

RECURSIVE MixBlocks(_, _)
\* four bytes at a time, little-endian
MixBlocks(h, data) ==
    IF Len(data) < 4 THEN MixTail(h, data)
    ELSE LET k == MulM(Word(data[4] * 256 + data[3], data[2] * 256 + data[1]))
             mixed == MulM(XorWord(k, Shr(k, 24)))
         IN  MixBlocks(XorWord(MulM(h), mixed), SubSeq(data, 5, Len(data)))

murmur2(data, seed) ==
    LET h == MixBlocks(XorWord(Word(0, seed), Word(0, Len(data))), data)
        h13 == MulM(XorWord(h, Shr(h, 13)))
    IN  XorWord(h13, Shr(h13, 15))

-----------------------------------------------------------------------------
(* CurseForgeAPI.file_hash on its own: every file of at most MaxBytes bytes  *)
(* of the alphabet below                                                    *)

\* tab, newline, vertical tab, carriage return, space and the letter A
Bytes == {9, 10, 11, 13, 32, 65}

\* a filter that lets the tab through
Stripped_keeps_tab(data) == SelectSeq(data, LAMBDA b : b \notin {10, 13, 32})

\* bytes([b for b in data if b not in (9, 10, 13, 32)])
Stripped(data) == SelectSeq(data, LAMBDA b : b \notin {9, 10, 13, 32})

\* the seed file_hash gives murmur2
Seed == 1

\* file_hash, to the await of f.read(): the whole file is read
FileHashRead ==
    /\ fh.pc = "start"
    /\ fh' = [fh EXCEPT !.pc = "read", !.data = fh.file]
    /\ UNCHANGED <<progvars, rvvars, initvars, togglevars>>

\* file_hash, from the bytes read to its return: the filter, then murmur2
FileHashDigest ==
    /\ fh.pc = "read"
    /\ fh' = [fh EXCEPT !.pc = "done",
                        !.data = Stripped(fh.data),
                        !.call = <<[data |-> Stripped(fh.data), seed |-> Seed]>>,
                        !.result = <<murmur2(Stripped(fh.data), Seed)>>]
    /\ UNCHANGED <<progvars, rvvars, initvars, togglevars>>

InitHash ==
    /\ \E file \in SeqsUpTo(Bytes, MaxBytes) :
          fh = [file |-> file, pc |-> "start", data |-> <<>>, call |-> <<>>,
                result |-> <<>>]
    /\ published = [m \in ModIds |-> 1]
    /\ disk = [f \in Files |-> Absent]
    /\ saved = NoMods
    /\ mods = NoMods
    /\ cmd = Idle
    /\ tasks = <<>>
    /\ ncmds = 0
    /\ loaded_pinned = {}
    /\ last = NoCommand
    /\ rv_versions = <<>>
    /\ rv_config = Platform
    /\ rv_result = [done |-> FALSE, value |-> <<>>]
    /\ manifest = Header(Platform.version, Platform.loader)
    /\ outcome = NoOutcome
    /\ toggled = NotToggled

NextHash ==
    \/ FileHashRead
    \/ FileHashDigest

SpecHash == InitHash /\ [][NextHash]_vars

-----------------------------------------------------------------------------
(* Config.disable and Config.enable on their own, applied to the entries of *)
(* a loaded Config; no command of main.py calls them                        *)

\* f"{mod.installed_file}.disabled"
DisabledName(file) == file \o ".disabled"

\* the names a file of the mods directory may have in this part
ToggleFiles == Files \cup {DisabledName(file) : file \in Files}

\* os.rename(src, dst): what it raises and the directory after it. Where dst
\* exists it is replaced (POSIX), or FileExistsError is raised (Windows).
rename(d, src, dst, replaces) ==
    IF d[src] = Absent THEN [raised |-> "FileNotFoundError", disk |-> d]
    ELSE IF d[dst] # Absent /\ ~replaces THEN [raised |-> "FileExistsError", disk |-> d]
    ELSE [raised |-> "", disk |-> [d EXCEPT ![dst] = d[src], ![src] = Absent]]

\* a with-block that suppresses nothing
suppress_nothing(done) == done

\* with suppress(FileNotFoundError)
suppress(done) ==
    IF done.raised = "FileNotFoundError" THEN [done EXCEPT !.raised = ""] ELSE done

\* Config.disable
disable(d, mod, replaces) ==
    suppress(rename(d, mod.installed_file, DisabledName(mod.installed_file), replaces))

\* Config.enable
enable(d, mod, replaces) ==
    suppress(rename(d, DisabledName(mod.installed_file), mod.installed_file, replaces))

\* what is noted of a call: the call itself, and the call before it
Called(op, id, done, had) ==
    [op |-> op, id |-> id, raised |-> done.raised, had |-> had,
     replaces |-> toggled.replaces,
     prev |-> [op |-> toggled.op, id |-> toggled.id,
               raised |-> toggled.raised, had |-> toggled.had]]

\* config.disable(config.mods[id])
Disable(id) ==
    /\ id \in DOMAIN mods
    /\ LET done == disable(disk, mods[id], toggled.replaces)
       IN  /\ disk' = done.disk
           /\ toggled' = Called("disable", id, done, disk[mods[id].installed_file])
    /\ UNCHANGED <<published, saved, mods, cmd, tasks, ncmds, loaded_pinned, last, rvvars, initvars, hashvars>>

\* config.enable(config.mods[id])
Enable(id) ==
    /\ id \in DOMAIN mods
    /\ LET done == enable(disk, mods[id], toggled.replaces)
       IN  /\ disk' = done.disk
           /\ toggled' = Called("enable", id, done,
                                disk[DisabledName(mods[id].installed_file)])
    /\ UNCHANGED <<published, saved, mods, cmd, tasks, ncmds, loaded_pinned, last, rvvars, initvars, hashvars>>

\* the manifests the Config is loaded from: X at x2 and Y as discovered at
\* y0, or one of the manifests of Earlier that hold a mod
ToggleManifests ==
    {add_mod(add_mod(NoMods, from_version(ModName("X"), Catalogue["X"][3], ProviderId)),
             from_version(ModName("Y"), Catalogue["Y"][1], ProviderId))}
    \cup {e.saved : e \in {f \in Earlier : f.saved # NoMods}}

\* every file of an entry, and the file of its disabled name, is absent or
\* holds one of two contents; every other file is absent
InitToggle ==
    /\ saved \in ToggleManifests
    /\ mods = load_from(saved)
    /\ disk \in {d \in [ToggleFiles -> {Absent, Partial, "x2"}] :
                    \A f \in ToggleFiles :
                        d[f] # Absent =>
                            \E id \in DOMAIN saved :
                                f \in {saved[id].installed_file,
                                       DisabledName(saved[id].installed_file)}}
    /\ toggled \in {[NotToggled EXCEPT !.replaces = r] : r \in BOOLEAN}
    /\ published = [m \in ModIds |-> Len(Catalogue[m])]
    /\ cmd = Idle
    /\ tasks = <<>>
    /\ ncmds = 0
    /\ loaded_pinned = {}
    /\ last = NoCommand
    /\ rv_versions = <<>>
    /\ rv_config = Platform
    /\ rv_result = [done |-> FALSE, value |-> <<>>]
    /\ manifest = Header(Platform.version, Platform.loader)
    /\ outcome = NoOutcome
    /\ NoHashing

NextToggle ==
    \/ \E id \in ModIds : Disable(id)
    \/ \E id \in ModIds : Enable(id)

SpecToggle == InitToggle /\ [][NextToggle]_vars

-----------------------------------------------------------------------------
(* main.upgrade without ids, on manifests whose mods were installed from    *)
(* Modrinth, the active registry, and from CurseForge                       *)

\* the values of ctx.obj["PROVIDER"], which download records in the entry
Providers == {"modrinth", "curseforge"}

\* the first version of mod id, as download of the given registry enters it
InstalledFrom(id, provider_id) ==
    from_version(ModName(id), Catalogue[id][1], provider_id)

\* X at x1 and Y at y0, each installed from one of the registries, or not
RegistryManifests ==
    {[id \in DOMAIN from |-> InstalledFrom(id, from[id])] :
        from \in UNION {[S -> Providers] : S \in SUBSET ModIds}}

\* the mods directory that holds the file of every entry of manifest m
FilesOf(m) ==
    [f \in Files |->
        IF \E id \in DOMAIN m : m[id].installed_file = f
        THEN m[CHOOSE id \in DOMAIN m : m[id].installed_file = f].version_id
        ELSE Absent]

InitRegistries ==
    /\ saved \in RegistryManifests
    /\ disk = FilesOf(saved)
    /\ published \in {p \in [ModIds -> 1..3] : \A m \in ModIds : p[m] <= Len(Catalogue[m])}
    /\ mods = NoMods
    /\ cmd = Idle
    /\ tasks = <<>>
    /\ ncmds = 0
    /\ loaded_pinned = {}
    /\ last = NoCommand
    /\ rv_versions = <<>>
    /\ rv_config = Platform
    /\ rv_result = [done |-> FALSE, value |-> <<>>]
    /\ manifest = Header(Platform.version, Platform.loader)
    /\ outcome = NoOutcome
    /\ NoHashing
    /\ toggled = NotToggled

\* `modweaver upgrade`, with no ids, and what registry and user do meanwhile
NextRegistries ==
    \/ BeginUpgrade(<<>>)
    \/ \E t \in 1..MaxBatch : UpgradeInfo(t)
    \/ Save
    \/ \E m \in ModIds : Publish(m)
    \/ \E id \in ModIds : Pin(id)

SpecRegistries == InitRegistries /\ [][NextRegistries]_vars

-----------------------------------------------------------------------------
(* Properties *)

\* the place of x in the sequence s, which holds it once
Pos(s, x) == CHOOSE i \in 1..Len(s) : s[i] = x

\* a is b with some elements left out, the others in the order of b
IsSubsequence(a, b) ==
    /\ Range(a) \subseteq Range(b)
    /\ \A i, j \in 1..Len(a) : i < j => Pos(b, a[i]) < Pos(b, a[j])

DateDescending(s) == \A i, j \in 1..Len(s) : i < j => s[i].date >= s[j].date

\* the versions of rv_versions whose game versions and loaders hold the platform's
Compatible ==
    {v \in Range(rv_versions) :
        rv_config.version \in v.game_versions /\ rv_config.loader \in v.loaders}

\* C1 as stated: matchingVersions(m, p) is a subsequence of m.versions in the
\* order of m.versions, holding exactly the versions compatible with p.
C1_AsStated ==
    rv_result.done =>
        /\ IsSubsequence(rv_result.value, rv_versions)
        /\ Range(rv_result.value) = Compatible

\* C1 amended: matchingVersions(m, p) holds exactly the versions of m.versions
\* compatible with p, each once, newest first; versions of equal date keep the
\* order they have in m.versions; it is a subsequence in the order of
\* m.versions when m.versions is itself newest first.
C1_MatchingVersions ==
    rv_result.done =>
        /\ Range(rv_result.value) = Compatible
        /\ Injective(rv_result.value)
        /\ DateDescending(rv_result.value)
        /\ \A i, j \in 1..Len(rv_result.value) :
              (i < j /\ rv_result.value[i].date = rv_result.value[j].date)
                  => Pos(rv_versions, rv_result.value[i]) < Pos(rv_versions, rv_result.value[j])
        /\ DateDescending(rv_versions) => IsSubsequence(rv_result.value, rv_versions)

\* two compatible versions listed oldest first, and one incompatible: resolved
C1_Witness ==
    /\ rv_result.done
    /\ Len(rv_result.value) = 2
    /\ Len(rv_versions) = 3
    /\ ~DateDescending(rv_versions)
    /\ Pos(rv_versions, rv_result.value[1]) > Pos(rv_versions, rv_result.value[2])

-----------------------------------------------------------------------------
(* add *)

\* coroutine t ends in this step with the given result
Ends(t, result) ==
    /\ t \in DOMAIN tasks
    /\ t \in DOMAIN tasks'
    /\ tasks[t].pc # "done"
    /\ tasks'[t].pc = "done"
    /\ tasks'[t].result = result

\* v is compatible with the platform of the manifest
CompatibleVersion(v) ==
    Platform.version \in v.game_versions /\ Platform.loader \in v.loaders

\* the versions of mod id the registry has published so far
PublishedVersions(id) == {Catalogue[id][i] : i \in 1..published[id]}

\* C2 as stated: an add of a mod whose id is in the manifest is rejected and
\* never overwrites the entry, under every interleaving of a batch add: no
\* coroutine of add completes an installation of an id the manifest holds.
C2_AddRejectsInstalled ==
    [][\A t \in 1..MaxBatch :
          (cmd.kind = "add" /\ Ends(t, "Installed")) => tasks[t].id \notin DOMAIN mods]_vars

\* C3: when add succeeds, the version it downloaded is element 0 of the
\* matching versions it computed, a compatible version no older than any other
\* of them, and on its return the manifest holds an entry for the mod's id with
\* that version's id and file name, the file holding that version.
C3_AddInstallsBest ==
    [][\A t \in 1..MaxBatch :
          (cmd.kind = "add" /\ Ends(t, "Installed")) =>
              LET id == tasks[t].id
                  best == tasks[t].versions[1]
              IN  /\ id = Resolve(tasks[t].arg)
                  /\ best \in PublishedVersions(id)
                  /\ CompatibleVersion(best)
                  /\ \A v \in Range(tasks[t].versions) : v.date <= best.date
                  /\ id \in DOMAIN mods'
                  /\ mods'[id].id = id
                  /\ mods'[id].version_id = best.id
                  /\ mods'[id].installed_file = best.filename
                  /\ disk'[best.filename] = best.id
                  /\ tasks'[t].mod = <<mods'[id]>>]_vars

\* an add has installed the newer of two compatible versions
C3_Witness ==
    /\ cmd.kind = "add"
    /\ \E t \in DOMAIN tasks :
          /\ tasks[t].result = "Installed"
          /\ Len(tasks[t].versions) = 2
          /\ tasks[t].id \in DOMAIN mods
          /\ mods[tasks[t].id].version_id = "x2"

\* C4: add of a mod the registry knows, that is not installed and has no
\* published version compatible with the platform, fails with
\* NoCompatibleVersion in the step that learns it: nothing is downloaded and
\* manifest and files are as before.
C4_AddNoCompatibleVersion ==
    [][\A t \in 1..MaxBatch :
          ( /\ cmd.kind = "add"
            /\ t \in DOMAIN tasks /\ t \in DOMAIN tasks'
            /\ tasks[t].pc = "start"
            /\ tasks'[t] # tasks[t]
            /\ Resolve(tasks[t].arg) # NotFound
            /\ Resolve(tasks[t].arg) \notin DOMAIN mods
            /\ ~\E v \in PublishedVersions(Resolve(tasks[t].arg)) : CompatibleVersion(v) )
          => /\ Ends(t, "NoCompatibleVersion")
             /\ mods' = mods
             /\ disk' = disk
             /\ saved' = saved]_vars

\* an add of Y, which has a forge version only, has failed; nothing of Y exists
C4_Witness ==
    /\ cmd.kind = "add"
    /\ \E t \in DOMAIN tasks :
          /\ tasks[t].arg = "Y"
          /\ tasks[t].result = "NoCompatibleVersion"
    /\ "Y" \notin DOMAIN mods
    /\ disk["y-0.jar"] = Absent

\* C5: while add runs, the manifest is the loaded one plus the entries of the
\* adds that succeeded: an add whose download failed has added no entry, so its
\* id is in the manifest only if another add of the batch installed it.
C5_AddDownloadFailed ==
    cmd.kind = "add" =>
        /\ \A id \in DOMAIN saved : id \in DOMAIN mods /\ mods[id] = from_dict(saved[id])
        /\ \A id \in DOMAIN mods \ DOMAIN saved :
              \E t \in DOMAIN tasks :
                  tasks[t].result = "Installed" /\ tasks[t].id = id /\ tasks[t].mod = <<mods[id]>>
        /\ \A t \in DOMAIN tasks :
              tasks[t].result = "DownloadFailed" =>
                  \/ tasks[t].id \notin DOMAIN mods
                  \/ \E u \in DOMAIN tasks :
                        u # t /\ tasks[u].result = "Installed" /\ tasks[u].id = tasks[t].id

\* the download of an add failed after its file was opened: no entry
C5_Witness ==
    /\ cmd.kind = "add"
    /\ \E t \in DOMAIN tasks :
          /\ tasks[t].result = "DownloadFailed"
          /\ tasks[t].id \notin DOMAIN mods
          /\ disk[tasks[t].versions[1].filename] = Partial

-----------------------------------------------------------------------------
(* find_upgrade and upgrade *)

\* the compatible versions of mod id published so far
CompatiblePublished(id) == {v \in PublishedVersions(id) : CompatibleVersion(v)}

\* the newest of them
Newest(id) == CHOOSE v \in CompatiblePublished(id) :
                  \A w \in CompatiblePublished(id) : w.date <= v.date

\* C6: find_upgrade(mod) fails with NoCompatibleVersion when no published
\* version of the mod is compatible; otherwise it returns None if and only if
\* the newest compatible version has the id mod.version_id, and else returns
\* that newest version. It changes neither manifest nor files.
C6_FindUpgrade ==
    [][\A t \in 1..MaxBatch :
          ( /\ cmd.kind = "outdated"
            /\ t \in DOMAIN tasks /\ t \in DOMAIN tasks'
            /\ tasks[t].pc = "start"
            /\ tasks'[t] # tasks[t] )
          => LET installed == tasks[t].mod[1]
                 result == tasks'[t].result
             IN  /\ tasks'[t].pc = "done"
                 /\ result \in {"None", "Upgrade", "NoCompatibleVersion"}
                 /\ result = "NoCompatibleVersion" <=> CompatiblePublished(installed.id) = {}
                 /\ result = "None" <=>
                       /\ CompatiblePublished(installed.id) # {}
                       /\ Newest(installed.id).id = installed.version_id
                 /\ result = "Upgrade" => tasks'[t].found = <<Newest(installed.id)>>
                 /\ result # "Upgrade" => tasks'[t].found = <<>>
                 /\ mods' = mods
                 /\ saved' = saved
                 /\ disk' = disk]_vars

\* outdated has found X upgradeable to x2 and Y, discovered at the forge-only
\* y0 while nothing else of Y is published, without a compatible version
C6_Witness ==
    /\ cmd.kind = "outdated"
    /\ \E t, u \in DOMAIN tasks :
          /\ tasks[t].result = "Upgrade"
          /\ tasks[t].mod[1].version_id = "x1"
          /\ tasks[t].found[1].id = "x2"
          /\ tasks[u].result = "NoCompatibleVersion"
          /\ tasks[u].mod[1].version_id = "y0"

\* the installed mod id is upgradeable: a compatible version newer than all
\* others is published and is not the installed one
Upgradeable(id) ==
    /\ id \in DOMAIN mods
    /\ CompatiblePublished(id) # {}
    /\ Newest(id).id # mods[id].version_id

\* C7 as stated: upgrade of an installed mod whose record is pinned returns
\* None, raises nothing, and leaves the entry as loaded.
C7_PinnedUpgradeReturnsNone ==
    cmd.kind = "upgrade" =>
        \A t \in DOMAIN tasks :
            ( /\ tasks[t].pc = "done"
              /\ Resolve(tasks[t].arg) \in DOMAIN mods
              /\ Resolve(tasks[t].arg) \in loaded_pinned )
            => /\ tasks[t].result = "None"
               /\ mods[Resolve(tasks[t].arg)] = from_dict(saved[Resolve(tasks[t].arg)])

\* C8 as stated: upgrade of an installed, unpinned mod whose newest compatible
\* version is not the installed one returns the new InstalledMod, and the
\* manifest then holds that version for the id.
C8_UpgradeInstallsNewest ==
    cmd.kind = "upgrade" =>
        \A t \in DOMAIN tasks :
            ( /\ tasks[t].pc = "done"
              /\ Resolve(tasks[t].arg) \notin loaded_pinned
              /\ Upgradeable(Resolve(tasks[t].arg))
              /\ tasks[t].result # "DownloadFailed" )
            => /\ tasks[t].result = "Upgraded"
               /\ mods[Resolve(tasks[t].arg)].version_id \in
                      {v.id : v \in CompatiblePublished(Resolve(tasks[t].arg))}
               /\ mods[Resolve(tasks[t].arg)].version_id #
                      saved[Resolve(tasks[t].arg)].version_id

\* C10 as stated: an upgrade of an installed, unpinned, upgradeable mod that
\* does not succeed fails with DownloadFailed, the failed download being its
\* only way to fail, and leaves the entry as loaded and the installed file.
C10_UpgradeDownloadFailed ==
    cmd.kind = "upgrade" =>
        \A t \in DOMAIN tasks :
            ( /\ tasks[t].pc = "done"
              /\ Resolve(tasks[t].arg) \notin loaded_pinned
              /\ Upgradeable(Resolve(tasks[t].arg))
              /\ tasks[t].result # "Upgraded" )
            => /\ tasks[t].result = "DownloadFailed"
               /\ mods[Resolve(tasks[t].arg)] = from_dict(saved[Resolve(tasks[t].arg)])

-----------------------------------------------------------------------------
(* Who deletes files *)

\* file f exists before the step and not after it
Deleted(f) == disk[f] # Absent /\ disk'[f] = Absent

-----------------------------------------------------------------------------
(* remove and upgrade of what is not installed; remove of what is *)

\* the command handles item t in this step: the item's coroutine moves from
\* its start, or the loop of remove is at the item and the command ends
Handles(t) ==
    /\ t \in DOMAIN tasks
    /\ tasks[t].pc = "start"
    /\ \/ t \in DOMAIN tasks' /\ tasks'[t] # tasks[t]
       \/ cmd.kind = "remove" /\ NextInLoop(t) /\ cmd' = Idle

\* the item ends in this step with the given error and nothing else changes
FailsWith(t, error) ==
    /\ t \in DOMAIN tasks'
    /\ tasks'[t].pc = "done"
    /\ tasks'[t].result = error
    /\ mods' = mods
    /\ disk' = disk
    /\ saved' = saved

\* C11 as stated: remove(modId) and upgrade(modId) of an id that is not in
\* the manifest fail with NotInstalled and change neither manifest nor files.
C11_NotInstalled ==
    [][\A t \in 1..MaxBatch :
          ( /\ cmd.kind \in {"remove", "upgrade"}
            /\ Handles(t)
            /\ Resolve(tasks[t].arg) \notin DOMAIN mods )
          => FailsWith(t, "NotInstalled")]_vars

\* C11 amended: remove(modId) and upgrade(modId) of an id the registry knows,
\* whose mod is not in the manifest, fail with NotInstalled and change neither
\* the manifest, in memory or saved, nor any file.
C11_NotInstalledKnownId ==
    [][\A t \in 1..MaxBatch :
          ( /\ cmd.kind \in {"remove", "upgrade"}
            /\ Handles(t)
            /\ Resolve(tasks[t].arg) # NotFound
            /\ Resolve(tasks[t].arg) \notin DOMAIN mods )
          => FailsWith(t, "NotInstalled")]_vars

\* remove of Y, which is not installed while X is, has failed
C11_Witness ==
    /\ cmd.kind = "remove"
    /\ DOMAIN mods = {"X"}
    /\ mods = load_from(saved)
    /\ \E t \in DOMAIN tasks :
          tasks[t].arg = "Y" /\ tasks[t].result = "NotInstalled"

\* C12: remove(modId) of an installed mod succeeds, removes the entry of the
\* mod and no other, and leaves the entry's file absent and every other file
\* as it was, whether the file existed or not.
C12_RemoveInstalled ==
    [][\A t \in 1..MaxBatch :
          ( /\ cmd.kind = "remove"
            /\ Handles(t)
            /\ Resolve(tasks[t].arg) \in DOMAIN mods )
          => LET id == Resolve(tasks[t].arg)
                 file == mods[id].installed_file
             IN  /\ t \in DOMAIN tasks'
                 /\ tasks'[t].pc = "done"
                 /\ tasks'[t].result = "Deleted"
                 /\ DOMAIN mods' = DOMAIN mods \ {id}
                 /\ \A other \in DOMAIN mods' : mods'[other] = mods[other]
                 /\ disk'[file] = Absent
                 /\ \A f \in Files \ {file} : disk'[f] = disk[f]]_vars

\* remove has deleted X, whose file x-1.jar was there, and Y, discovered in
\* y-forge.jar and entered with the file y-0.jar, which never was
C12_Witness ==
    /\ cmd.kind = "remove"
    /\ mods = NoMods
    /\ DOMAIN saved = {"X", "Y"}
    /\ saved["X"].installed_file = "x-1.jar"
    /\ saved["Y"].installed_file = "y-0.jar"
    /\ disk["x-1.jar"] = Absent
    /\ disk["y-0.jar"] = Absent
    /\ disk["y-forge.jar"] = "y0"
    /\ \A t \in DOMAIN tasks : tasks[t].result = "Deleted"

-----------------------------------------------------------------------------
(* Batches *)

\* C13 as stated: in a batch add, remove, upgrade or discover the failure of
\* one item never keeps another from being processed: when the invocation
\* ends, every item but the one that may be failing in that step has
\* succeeded or failed, and the manifest saved holds the effect of every
\* success.
C13_BatchItemsIndependent ==
    [][( /\ cmd.kind \in {"add", "remove", "upgrade", "discover"}
         /\ cmd'.kind = "idle" )
       => /\ \A t \in DOMAIN tasks : tasks[t].pc = "done" \/ Handles(t)
          /\ saved' = save(mods)]_vars

-----------------------------------------------------------------------------
(* add, then remove or upgrade *)

C16_UpgradeAfterAdd ==
    (cmd.kind = "upgrade" /\ last.kind = "add") =>
        \A t \in DOMAIN tasks :
            ( /\ tasks[t].pc = "done"
              /\ Resolve(tasks[t].arg) \in last.installed
              /\ published = last.registry
              /\ saved[Resolve(tasks[t].arg)].version_id = Newest(Resolve(tasks[t].arg)).id )
            => /\ tasks[t].result = "None"
               /\ mods = load_from(saved)
               /\ disk[saved[Resolve(tasks[t].arg)].installed_file] =
                      saved[Resolve(tasks[t].arg)].version_id

-----------------------------------------------------------------------------
(* discover *)

\* C17: discover starts no coroutine, and so makes no registry call and no
\* manifest change, for a file that an entry of the manifest it loaded names
\* as its installed file: every file its coroutines work on is unknown to
\* that manifest, and with nothing but known files given it changes nothing.
C17_KnownFilesSkipped ==
    [][cmd'.kind = "discover" =>
          /\ \A t \in DOMAIN tasks' :
                ~\E id \in DOMAIN saved' : saved'[id].installed_file = tasks'[t].arg
          /\ (cmd.kind = "discover" /\ mods' # mods) =>
                \E t \in DOMAIN tasks :
                    /\ tasks'[t] # tasks[t]
                    /\ ~\E id \in DOMAIN saved : saved[id].installed_file = tasks[t].arg]_vars

\* discover was given nothing but x-1.jar, which is there and is the file of
\* the installed X: it has no coroutine and the manifest is as loaded
C17_Witness ==
    /\ cmd.kind = "discover"
    /\ tasks = <<>>
    /\ "X" \in DOMAIN mods
    /\ mods["X"].installed_file = "x-1.jar"
    /\ disk["x-1.jar"] = "x1"
    /\ disk["y-forge.jar"] = Absent
    /\ mods = load_from(saved)

\* C18 as stated: a discover that identifies the file inserts an entry for
\* the identified mod whose installed file is the given path, and downloads
\* nothing; one that cannot identify the file fails with UnidentifiableFile
\* and leaves the manifest unchanged.
C18_DiscoverInserts ==
    [][\A t \in 1..MaxBatch :
          /\ (cmd.kind = "discover" /\ Ends(t, "Discovered")) =>
                \E id \in DOMAIN mods' :
                    /\ \E v \in PublishedVersions(id) :
                          v.id = disk[tasks[t].arg] /\ mods'[id].version_id = v.id
                    /\ mods'[id].id = id
                    /\ mods'[id].installed_file = tasks[t].arg
                    /\ disk' = disk
          /\ (cmd.kind = "discover" /\ Ends(t, "UnidentifiableFile")) =>
                (mods' = mods /\ disk' = disk)]_vars

-----------------------------------------------------------------------------
(* init *)

\* the init command of this step was given --force, or not
Forced == outcome'.force

\* C19: an init without --force where a manifest exists fails and leaves the
\* manifest, platform and mods, as it was; every other init, where there is
\* no manifest or with --force, which deletes it first, succeeds and leaves a
\* manifest with the version and loader given and no mods.
C19_InitOnce ==
    [][outcome' # outcome =>
          /\ (manifest.exists /\ ~Forced) =>
                /\ outcome'.result = "ValueError"
                /\ manifest' = manifest
                /\ saved' = saved
          /\ (~manifest.exists \/ Forced) =>
                /\ outcome'.result = "Initialized"
                /\ manifest'.exists
                /\ manifest'.version = outcome'.game_version
                /\ manifest'.loader = outcome'.mod_loader
                /\ saved' = NoMods]_vars

\* init without --force has failed on a manifest for another platform that
\* holds a mod: the manifest is still that one
C19_Witness ==
    /\ outcome.result = "ValueError"
    /\ ~outcome.force
    /\ manifest.exists
    /\ manifest.version # outcome.game_version
    /\ manifest.loader # outcome.mod_loader
    /\ saved # NoMods

-----------------------------------------------------------------------------
(* load, mutate in memory, save *)

-----------------------------------------------------------------------------
(* Invariants of the manifest *)

\* C21 as stated: in every manifest reached from the empty one by add,
\* remove, upgrade and discover, in memory or saved, no two entries have the
\* same installed_file.
C21_UniqueInstalledFiles ==
    /\ \A a, b \in DOMAIN saved :
          a # b => saved[a].installed_file # saved[b].installed_file
    /\ \A a, b \in DOMAIN mods :
          a # b => mods[a].installed_file # mods[b].installed_file

\* the step is config.save() at the end of a command
Saves == ~NoProcess /\ AllDone /\ cmd'.kind = "idle"

\* C22 as stated: the manifest a command saves, loaded back, is the manifest
\* the command held, same platform and same mods, and every field of the
\* persisted format is preserved: an entry the command leaves as it loaded it
\* is written with the pinned = true its record had.
C22_SaveLoadRoundTrip ==
    [][Saves =>
          /\ manifest' = manifest
          /\ load_from(saved') = mods
          /\ \A id \in loaded_pinned \cap DOMAIN mods :
                mods[id] = from_dict(saved[id]) =>
                    (id \in DOMAIN saved' /\ FilePinned(saved'[id]))]_vars

-----------------------------------------------------------------------------
(* Fingerprint of a file *)

\* the places of data that hold none of tab, newline, carriage return, space
KeptPlaces(data) == {i \in 1..Len(data) : data[i] \notin {9, 10, 13, 32}}

\* the bytes of those places, in the order of the places
Kept(data) ==
    [k \in 1..Cardinality(KeptPlaces(data)) |->
        data[CHOOSE i \in KeptPlaces(data) :
                Cardinality({j \in KeptPlaces(data) : j <= i}) = k]]

\* C23: file_hash calls murmur2 once, on the bytes of the file without its
\* tabs, newlines, carriage returns and spaces, every other byte kept, in the
\* order of the file, the whole filtered sequence being its argument, and
\* with seed 1; what it returns is that hash.
C23_FingerprintSchemeB ==
    fh.pc = "done" =>
        /\ fh.call = <<[data |-> Kept(fh.file), seed |-> 1]>>
        /\ fh.result = <<murmur2(Kept(fh.file), 1)>>

\* a file with a tab, a vertical tab and a space between two letters is
\* hashed: the vertical tab is kept, between the letters
C23_Witness ==
    /\ fh.pc = "done"
    /\ fh.file = <<65, 9, 11, 32, 65>>
    /\ fh.call[1].data = <<65, 11, 65>>
    /\ fh.result = <<murmur2(<<65, 11, 65>>, 1)>>

-----------------------------------------------------------------------------
(* disable and enable *)

\* C24: disable renames the file of a mod to its name with .disabled
\* appended, and enable renames the file of that name back, whenever the
\* file to rename exists and the call raises nothing; an enable that follows
\* the disable of the same mod so leaves the file under its original name,
\* holding what it held; where the file to rename is absent the call changes
\* nothing and raises nothing; neither changes the manifest.
C24_DisableEnable ==
    [][toggled' # toggled =>
          LET call == toggled'
              file == mods[call.id].installed_file
              src == IF call.op = "disable" THEN file ELSE DisabledName(file)
              dst == IF call.op = "disable" THEN DisabledName(file) ELSE file
          IN  /\ saved' = saved
              /\ mods' = mods
              /\ disk[src] = Absent => (disk' = disk /\ call.raised = "")
              /\ (disk[src] # Absent /\ call.raised = "") =>
                    /\ disk'[dst] = disk[src]
                    /\ disk'[src] = Absent
                    /\ \A f \in ToggleFiles \ {src, dst} : disk'[f] = disk[f]
              /\ ( /\ call.op = "enable"
                   /\ call.raised = ""
                   /\ toggled.op = "disable"
                   /\ toggled.id = call.id
                   /\ toggled.raised = ""
                   /\ toggled.had # Absent )
                 => (disk'[file] = toggled.had /\ disk'[DisabledName(file)] = Absent)]_vars

\* Y, whose file y-0.jar was there, was disabled and enabled again: the file
\* is back; the disable of X before them, whose file is not there, did nothing
C24_Witness ==
    /\ toggled.op = "enable"
    /\ toggled.id = "Y"
    /\ toggled.raised = ""
    /\ toggled.prev.op = "disable"
    /\ toggled.prev.id = "Y"
    /\ toggled.prev.raised = ""
    /\ toggled.prev.had = "x2"
    /\ disk["y-0.jar"] = "x2"
    /\ disk[DisabledName("y-0.jar")] = Absent
    /\ "X" \in DOMAIN mods
    /\ disk[mods["X"].installed_file] = Absent
    /\ saved = save(mods)

-----------------------------------------------------------------------------
(* Order of the matching versions *)

\* C25: matching_versions is ordered by date, newest first, and two of its
\* versions with the same date are in the order they have in the mod's
\* version list: of two versions of the result the first is newer, or as old
\* and listed before the second.
C25_NewestFirstStable ==
    rv_result.done =>
        \A i, j \in 1..Len(rv_result.value) :
            i < j =>
                LET first == rv_result.value[i]
                    second == rv_result.value[j]
                IN  \/ first.date > second.date
                    \/ /\ first.date = second.date
                       /\ Pos(rv_versions, first) < Pos(rv_versions, second)

\* listed as a, c, b, where c and b have the same date and a is older, all
\* three compatible: the result is c, b, a
C25_Witness ==
    /\ rv_result.done
    /\ Len(rv_versions) = 3
    /\ Len(rv_result.value) = 3
    /\ rv_result.value[1].date = rv_result.value[2].date
    /\ rv_result.value[1].id = "c"
    /\ rv_result.value = <<rv_versions[2], rv_versions[3], rv_versions[1]>>

-----------------------------------------------------------------------------
(* What remove leaves in the manifest file *)

\* C26 as stated: when a remove invocation ends, by its last id or by a
\* registry lookup that fails, the manifest file holds no entry of a mod the
\* invocation removed and whose file it deleted.
C26_RemovedNotSaved ==
    [][(cmd.kind = "remove" /\ cmd'.kind = "idle") =>
          \A t \in DOMAIN tasks :
              tasks[t].result = "Deleted" => tasks[t].id \notin DOMAIN saved']_vars

-----------------------------------------------------------------------------
(* The file of a replaced entry *)

\* C27 as stated: when an upgrade succeeds, or an install of a chosen
\* version over a mod that is installed, the file the new entry names
\* exists, also when the new version has the file name of the version that
\* was installed.
C27_ReplacedFileExists ==
    [][\A t \in 1..MaxBatch :
          ( \/ cmd.kind = "upgrade" /\ Ends(t, "Upgraded")
            \/ /\ cmd.kind = "install"
               /\ Ends(t, "Installed")
               /\ tasks[t].id \in DOMAIN mods )
          => LET id == tasks[t].id
             IN  /\ id \in DOMAIN mods'
                 /\ disk'[mods'[id].installed_file] # Absent]_vars

-----------------------------------------------------------------------------
(* discover and the entries that are there *)

\* C28 as stated: no step of discover replaces or alters an entry of the
\* manifest: an entry that is there stays as it is, also when the file is
\* identified as a mod whose id the manifest holds with another file.
C28_DiscoverKeepsEntries ==
    [][(cmd.kind = "discover" /\ cmd'.kind = "discover") =>
          \A id \in DOMAIN mods : id \in DOMAIN mods' /\ mods'[id] = mods[id]]_vars

-----------------------------------------------------------------------------
(* upgrade without ids *)

\* the ids of manifest m whose entries were installed from the active registry
FromActive(m) == {id \in DOMAIN m : m[id].provider_id = ProviderId}

\* C29 as stated: an upgrade invocation without ids attempts the mods of
\* the manifest installed from the active registry, each once, and no
\* other; while it runs and when it saves, the entry and the file of every
\* mod installed from another registry are as they were.
C29_UpgradeActiveRegistryOnly ==
    [][ /\ (NoProcess /\ cmd'.kind = "upgrade") =>
              /\ {tasks'[t].arg : t \in DOMAIN tasks'} = FromActive(saved)
              /\ Len(tasks') = Cardinality(FromActive(saved))
        /\ (cmd.kind = "upgrade" /\ cmd'.kind = "upgrade") =>
              \A id \in DOMAIN mods \ FromActive(mods) :
                  /\ id \in DOMAIN mods'
                  /\ mods'[id] = mods[id]
                  /\ disk'[mods[id].installed_file] = disk[mods[id].installed_file]
        /\ (cmd.kind = "upgrade" /\ cmd'.kind = "idle") =>
              \A id \in DOMAIN saved \ FromActive(saved) :
                  /\ id \in DOMAIN saved'
                  /\ saved'[id] = saved[id]
                  /\ disk'[saved[id].installed_file] = disk[saved[id].installed_file] ]_vars

====
